---- MODULE Spec2Model ----
(***************************************************************************)
(* punused: lib.Run walks a Go module, asks a language server for the      *)
(* symbols of every matching file and the references of every exported     *)
(* symbol, removes the unused ones through the external "rf" command and   *)
(* prints one diagnostic line per unused / test-only symbol.               *)
(*                                                                         *)
(* Strings are sequences of one-character strings, so that HasPrefix,      *)
(* HasSuffix, Index, TrimPrefix, Clean and the glob match are computed on  *)
(* the characters as the Go code computes them.                            *)
(***************************************************************************)
EXTENDS Integers, Sequences, FiniteSets, TLC

VARIABLES
    cfg,        \* RunConfig given to Run: WorkspaceDir, FilenamePattern, Out
    goMod,      \* whether <WorkspaceDir>/go.mod exists
    pc,         \* position of the (single) thread of control
    err,        \* Run's named result
    exitStatus, \* process exit status set by main ("running" until then)
    session,    \* backend session: "none", "open", "closed"
    walkStack,  \* filepath.Walk: entries still to be visited, next first
    curEntry,   \* the file-system entry handleFile was called for
    filename,   \* handleFile's argument
    tree,       \* index (in Trees) of the symbol tree DocumentSymbol returned
    rootIdx,    \* handleFile's loop over the root symbols
    stack,      \* active handleSymbol calls: [s |-> symbol, i |-> next child]
    ret,        \* value returned by the handleSymbol call that just ended
    refs,       \* handleSymbol's local refs
    unused,     \* handleSymbol's local unused
    testOnly,   \* handleSymbol's local testOnly
    rmErr,      \* error returned by r.remove for the current symbol
    content,    \* lines of the file being processed: the symbol declared on each
    out,        \* lines written to cfg.Out
    logged,     \* lines written with log.Printf
    log         \* history: backend / removal / output calls in order

vars == <<cfg, goMod, pc, err, exitStatus, session, walkStack, curEntry,
          filename, tree, rootIdx, stack, ret, refs, unused, testOnly, rmErr,
          content, out, logged, log>>

----------------------------------------------------------------------------
(* Bounds *)

\* largest number of references one DocumentReferences reply holds
MaxRefs == 2

----------------------------------------------------------------------------
(* package strings / path/filepath, on character sequences *)

HasPrefix(s, p) == Len(s) >= Len(p) /\ SubSeq(s, 1, Len(p)) = p

HasSuffix(s, p) == Len(s) >= Len(p) /\ SubSeq(s, Len(s) - Len(p) + 1, Len(s)) = p

TrimPrefix(s, p) == IF HasPrefix(s, p) THEN SubSeq(s, Len(p) + 1, Len(s)) ELSE s

Contains(s, c) == \E i \in 1..Len(s) : s[i] = c

\* strings.Index for a one-character needle: 0-based index of its first
\* occurrence, -1 when absent
RECURSIVE IndexFrom(_, _, _)
IndexFrom(s, c, i) ==
    IF i > Len(s) THEN -1
    ELSE IF s[i] = c THEN i - 1
    ELSE IndexFrom(s, c, i + 1)

Index(s, c) == IndexFrom(s, c, 1)

\* Go's s[k:] for a 0-based k
SliceFrom(s, k) == SubSeq(s, k + 1, Len(s))

\* os.PathSeparator on the platform the program is built for
Separator == "/"

ToSlash(s) == [i \in DOMAIN s |-> IF s[i] = Separator THEN "/" ELSE s[i]]

\* the components of a path between separators, empty ones included
RECURSIVE SplitPath(_, _, _)
SplitPath(s, i, cur) ==
    IF i > Len(s) THEN <<cur>>
    ELSE IF s[i] = Separator THEN <<cur>> \o SplitPath(s, i + 1, <<>>)
    ELSE SplitPath(s, i + 1, Append(cur, s[i]))

RECURSIVE JoinComps(_)
JoinComps(cs) ==
    IF cs = <<>> THEN <<>>
    ELSE IF Len(cs) = 1 THEN cs[1]
    ELSE cs[1] \o <<Separator>> \o JoinComps(Tail(cs))

\* filepath.Clean for paths without ".." elements: empty and "." elements
\* are dropped, a rooted path stays rooted, the empty result is "."
Clean(s) ==
    LET comps  == SplitPath(s, 1, <<>>)
        kept   == SelectSeq(comps, LAMBDA c : c # <<>> /\ c # <<".">>)
        rooted == Len(s) > 0 /\ s[1] = Separator
        body   == JoinComps(kept)
    IN  IF rooted THEN <<Separator>> \o body
        ELSE IF body = <<>> THEN <<".">>
        ELSE body

\* filepath.Join(dir, name)
Join(dir, name) == Clean(dir \o <<Separator>> \o name)

\* the Name() of the FileInfo os.Lstat returns for a path: its last element
BaseName(s) ==
    LET kept == SelectSeq(SplitPath(s, 1, <<>>), LAMBDA c : c # <<>>)
    IN  IF kept = <<>> THEN (IF s = <<>> THEN <<".">> ELSE <<Separator>>)
        ELSE kept[Len(kept)]

\* glob.Compile(pattern) without separators: the patterns used here are made
\* of literal characters and "*"; "[" opens a character class that must close
GlobCompiles(p) == ~Contains(p, "[")

\* Glob.Match: without separators "*" and "**" match any run of characters
RECURSIVE GlobMatch(_, _)
GlobMatch(p, s) ==
    IF p = <<>> THEN s = <<>>
    ELSE IF Head(p) = "*"
         THEN GlobMatch(Tail(p), s) \/ (s # <<>> /\ GlobMatch(p, Tail(s)))
         ELSE s # <<>> /\ Head(s) = Head(p) /\ GlobMatch(Tail(p), Tail(s))

----------------------------------------------------------------------------
(* The strings of the model *)

EmptyStr == <<>>

\* workspace directories given as cfg.WorkspaceDir
DirAbs    == <<"/", "w", "s">>
DirDot    == <<".">>
DirHidden == <<"/", ".", "w", "s">>
DirRel    == <<".", "/", "w", "s">>

\* glob patterns given as cfg.FilenamePattern; PatDefault is main's default
PatDefault == <<"*", "*", "/", "*", ".", "g", "o">>
PatAnyGo   == <<"*", ".", "g", "o">>
PatBad     == <<"[">>

GoSuffix   == <<".", "g", "o">>
TestSuffix == <<"_", "t", "e", "s", "t", ".", "g", "o">>
GoModName  == <<"g", "o", ".", "m", "o", "d">>

PfxTest      == <<"T", "e", "s", "t">>
PfxBenchmark == <<"B", "e", "n", "c", "h", "m", "a", "r", "k">>
PfxExample   == <<"E", "x", "a", "m", "p", "l", "e">>

UpperAZ == {"A", "B", "C", "D", "E", "F", "G", "H", "I", "J", "K", "L", "M",
            "N", "O", "P", "Q", "R", "S", "T", "U", "V", "W", "X", "Y", "Z"}

\* URIs a reference can lie in: a non-test file, a test file, and a file
\* whose name ends in "test.go" without the underscore
URIs == {<<"u", ".", "g", "o">>,
         <<"u", "_", "t", "e", "s", "t", ".", "g", "o">>,
         <<"v", "t", "e", "s", "t", ".", "g", "o">>}

----------------------------------------------------------------------------
(* The workspace on disk, as filepath.Walk sees it.  Entry 1 is the root;  *)
(* the children of a directory are listed in lexical order, the order in   *)
(* which Walk visits them.  go.mod is there when goMod holds; the lstat of *)
(* entry 8 fails, so the callback gets a nil FileInfo for it.              *)

RootId == 1

Entries ==
    <<[name |-> EmptyStr,       isDir |-> TRUE,  lstatOK |-> TRUE,  children |-> <<2, 4, 5, 6, 8>>],
      [name |-> <<".", "g", "i", "t">>, isDir |-> TRUE,  lstatOK |-> TRUE,  children |-> <<3>>],
      [name |-> <<"x", ".", "g", "o">>, isDir |-> FALSE, lstatOK |-> TRUE,  children |-> <<>>],
      [name |-> <<"a", ".", "g", "o">>, isDir |-> FALSE, lstatOK |-> TRUE,  children |-> <<>>],
      [name |-> GoModName,      isDir |-> FALSE, lstatOK |-> TRUE,  children |-> <<>>],
      [name |-> <<"l", "i", "b">>, isDir |-> TRUE,  lstatOK |-> TRUE,  children |-> <<7>>],
      [name |-> <<"b", "_", "t", "e", "s", "t", ".", "g", "o">>, isDir |-> FALSE, lstatOK |-> TRUE, children |-> <<>>],
      [name |-> <<"z", "z">>, isDir |-> FALSE, lstatOK |-> FALSE, children |-> <<>>]>>

EntryIds == DOMAIN Entries

\* info.Name(): the root's is the last element of the path Walk was given
EntryName(e, root) == IF e = RootId THEN BaseName(root) ELSE Entries[e].name

\* the names readDirNames returns for a directory
EntryChildren(e, hasGoMod) ==
    SelectSeq(Entries[e].children,
              LAMBDA c : Entries[c].name # GoModName \/ hasGoMod)

\* parent of an entry (0 for the root)
ParentOf(e) ==
    IF \E d \in EntryIds : \E i \in DOMAIN Entries[d].children : Entries[d].children[i] = e
    THEN CHOOSE d \in EntryIds : \E i \in DOMAIN Entries[d].children : Entries[d].children[i] = e
    ELSE 0

----------------------------------------------------------------------------
(* Symbol trees DocumentSymbol can return.  A symbol is its index in the   *)
(* tree's node sequence (the *Symbol pointer); nodes are numbered in       *)
(* pre-order and each declaration starts one line after the previous one,  *)
(* so symbol s has Location line s - 1 (0-based) when the tree is read.    *)

Trees ==
    << \* type Foo struct { Name }, func (Foo) Bar, func (*Foo) bar, var _V
       [roots |-> <<1, 3, 4, 5>>,
        node  |-> <<[Name |-> <<"F", "o", "o">>, Kind |-> "Struct", Children |-> <<2>>],
                    [Name |-> <<"N", "a", "m", "e">>, Kind |-> "Field", Children |-> <<>>],
                    [Name |-> <<"(", "F", "o", "o", ")", ".", "B", "a", "r">>, Kind |-> "Method", Children |-> <<>>],
                    [Name |-> <<"(", "*", "F", "o", "o", ")", ".", "b", "a", "r">>, Kind |-> "Method", Children |-> <<>>],
                    [Name |-> <<"_", "V">>, Kind |-> "Variable", Children |-> <<>>]>>],
       \* type Example interface { Do }, type reader interface { Read }, func TestFoo
       [roots |-> <<1, 3, 5>>,
        node  |-> <<[Name |-> <<"E", "x", "a", "m", "p", "l", "e">>, Kind |-> "Interface", Children |-> <<2>>],
                    [Name |-> <<"D", "o">>, Kind |-> "Method", Children |-> <<>>],
                    [Name |-> <<"r", "e", "a", "d", "e", "r">>, Kind |-> "Interface", Children |-> <<4>>],
                    [Name |-> <<"R", "e", "a", "d">>, Kind |-> "Method", Children |-> <<>>],
                    [Name |-> <<"T", "e", "s", "t", "F", "o", "o">>, Kind |-> "Function", Children |-> <<>>]>>] >>

TreeIds == DOMAIN Trees

SymIds(t) == DOMAIN Trees[t].node

Sym(t, s) == Trees[t].node[s]

\* Symbol.Location.Range.Start.Line / .Character as DocumentSymbol reports them
LocLine(s) == s - 1
LocChar(s) == 0

RECURSIVE Subtree(_, _)
Subtree(t, s) ==
    {s} \cup UNION {Subtree(t, Sym(t, s).Children[i]) : i \in DOMAIN Sym(t, s).Children}

\* the file as DocumentSymbol read it: symbol s is declared on line s - 1
InitialContent(t) == [i \in SymIds(t) |-> i]

\* strings.ToLower(Kind.String())
KindLower(k) ==
    CASE k = "Struct"    -> "struct"
      [] k = "Field"     -> "field"
      [] k = "Method"    -> "method"
      [] k = "Function"  -> "function"
      [] k = "Interface" -> "interface"
      [] k = "Variable"  -> "variable"

----------------------------------------------------------------------------
(* handleSymbol's decisions *)

\* isExported
isExported(s) == Len(s) > 0 /\ s[1] \in UpperAZ

\* isTest: the name starts with Test, Benchmark or Example
isTest(name) ==
    HasPrefix(name, PfxTest) \/ HasPrefix(name, PfxBenchmark) \/ HasPrefix(name, PfxExample)

\* base: a method's name comes as (MyType).MyMethod
BaseOf(sym) ==
    IF sym.Kind = "Method" /\ Contains(sym.Name, ".")
    THEN SliceFrom(sym.Name, Index(sym.Name, ".") + 1)
    ELSE sym.Name

\* faulty variant of SkipRule: fields are not skipped
SkipRuleNoField(fname, sym) ==
    IF HasSuffix(fname, TestSuffix) /\ sym.Kind = "Function" /\ isTest(sym.Name)
    THEN "test"
    ELSE IF ~isExported(BaseOf(sym)) THEN "unexported"
    ELSE "none"

\* the early returns of handleSymbol before the reference query
SkipRule(fname, sym) ==
    IF sym.Kind = "Field" THEN "field"
    ELSE IF HasSuffix(fname, TestSuffix) /\ sym.Kind = "Function" /\ isTest(sym.Name)
         THEN "test"
    ELSE IF ~isExported(BaseOf(sym)) THEN "unexported"
    ELSE "none"

\* the loop over refs: testOnly stays true until a reference outside a
\* _test.go file is met
RECURSIVE TestOnlyLoop(_, _)
TestOnlyLoop(rs, i) ==
    IF i > Len(rs) THEN TRUE
    ELSE IF ~HasSuffix(rs[i], TestSuffix) THEN FALSE
    ELSE TestOnlyLoop(rs, i + 1)

\* faulty variant of Classify: without the break the last reference decides
ClassifyLastRef(rs) ==
    IF Len(rs) = 0
    THEN [unused |-> TRUE, testOnly |-> FALSE]
    ELSE [unused |-> FALSE, testOnly |-> HasSuffix(rs[Len(rs)], TestSuffix)]

Classify(rs) ==
    IF Len(rs) = 0
    THEN [unused |-> TRUE, testOnly |-> FALSE]
    ELSE [unused |-> FALSE, testOnly |-> TestOnlyLoop(rs, 1)]

\* faulty variant of ShouldRemove: whatever is reported is removed
ShouldRemoveReported(u, t) == u \/ t

\* if unused { r.remove(...) }
ShouldRemove(u, t) == u

\* faulty variant of RemoveErrReturn: the error of r.remove is returned
RemoveErrReturned(e) == e

\* the error of r.remove is logged; handleSymbol goes on ("nil": no return)
RemoveErrReturn(e) == "nil"

\* if unused || testOnly { e.Print(...) }
ShouldPrint(u, t) == u \/ t

\* faulty variant of VisitChildren: the children of an unused symbol are not entered
VisitChildrenUnlessUnused(u, t) == ~u

\* the loop over s.Children follows unconditionally
VisitChildren(u, t) == TRUE

\* faulty variant of ChildErrReturn: the error of a child is dropped
ChildErrDropped(e) == "nil"

\* if err := handleSymbol(child); err != nil { return err }
ChildErrReturn(e) == e

\* usage.Print: the line written for a symbol
UsageLine(fname, s, sym, isTestOnly) ==
    [Filename |-> fname,
     Line     |-> LocLine(s) + 1,
     Col      |-> LocChar(s) + 1,
     Kind     |-> KindLower(sym.Kind),
     Name     |-> sym.Name,
     Code     |-> IF isTestOnly THEN "EU1001" ELSE "EU1002"]

\* remove: methodRegexp \(\*?(.+)\)\.(.+) replaced by $1.$2.  The match
\* starts at the leftmost "(" that has a later ")." followed by a character,
\* takes the "*" when a receiver remains after it, then the longest receiver.
RemovalReference(sym) ==
    LET n      == sym.Name
        Ks(lo) == {k \in 1..(Len(n) - 2) : n[k] = ")" /\ n[k + 1] = "." /\ k > lo}
        Starts == {i \in 1..Len(n) : n[i] = "(" /\ Ks(i + 1) # {}}
    IN  IF sym.Kind = "Method" /\ Contains(n, ".") /\ Starts # {}
        THEN LET i    == CHOOSE x \in Starts : \A y \in Starts : x <= y
                 star == n[i + 1] = "*" /\ Ks(i + 2) # {}
                 g1   == IF star THEN i + 2 ELSE i + 1
                 k    == CHOOSE x \in Ks(g1) : \A y \in Ks(g1) : y <= x
             IN  SubSeq(n, 1, i - 1) \o SubSeq(n, g1, k - 1) \o <<".">>
                                     \o SubSeq(n, k + 2, Len(n))
        ELSE n

\* the script given to rf
RemoveScript(sym) == <<"r", "m", " ">> \o RemovalReference(sym)

\* what a successful "rf rm" leaves of the file: the declaration and what
\* is nested in it are gone, the lines below move up
ContentAfterRemove(c, t, s) == SelectSeq(c, LAMBDA x : x \notin Subtree(t, s))

----------------------------------------------------------------------------
(* Run, Walk *)

\* RunConfig.validate
Validate(c) ==
    IF c.WorkspaceDir = EmptyStr THEN "validate"
    ELSE IF c.FilenamePattern = EmptyStr THEN "validate"
    ELSE IF c.Out = "nil" THEN "validate"
    ELSE "nil"

\* base := TrimPrefix(ToSlash(TrimPrefix(path, WorkspaceDir)), "/")
WalkBase(path, wsdir) == TrimPrefix(ToSlash(TrimPrefix(path, wsdir)), <<"/">>)

\* faulty variant of WalkFileReturn: the callback drops handleFile's error
WalkFileReturnNil(e) == "nil"

\* return r.handleFile(base): what the Walk callback returns for a file
WalkFileReturn(e) == e

\* faulty variant of StopRuns: Stop is called only when Walk returned nil
StopRunsOnSuccess(e) == e = "nil"

\* defer func() { r.Stop() }(): runs whatever Walk returned
StopRuns(e) == TRUE

\* the replies DocumentReferences can give: up to MaxRefs locations
RefReplies == UNION {[1..n -> URIs] : n \in 0..MaxRefs}

Ev(op, file, t, s, res) == [op |-> op, file |-> file, tree |-> t, sym |-> s, res |-> res]

----------------------------------------------------------------------------
(* The state machine *)

Configs ==
    [WorkspaceDir    : {EmptyStr, DirAbs, DirDot, DirHidden, DirRel},
     FilenamePattern : {EmptyStr, PatBad, PatDefault, PatAnyGo},
     Out             : {"nil", "stdout"}]

Init ==
    /\ cfg \in Configs
    /\ goMod \in BOOLEAN
    /\ pc = "validate"
    /\ err = "nil"
    /\ exitStatus = "running"
    /\ session = "none"
    /\ walkStack = <<>>
    /\ curEntry = 0
    /\ filename = EmptyStr
    /\ tree = 0
    /\ rootIdx = 0
    /\ stack = <<>>
    /\ ret = "nil"
    /\ refs = <<>>
    /\ unused = FALSE
    /\ testOnly = FALSE
    /\ rmErr = "nil"
    /\ content = <<>>
    /\ out = <<>>
    /\ logged = <<>>
    /\ log = <<>>

fileVars == <<curEntry, filename, tree, rootIdx, content>>
symVars  == <<stack, ret, refs, unused, testOnly, rmErr>>
ioVars   == <<out, logged, log>>
envVars  == <<cfg, goMod>>

\* Run: cfg.validate()
RunValidate ==
    /\ pc = "validate"
    /\ IF Validate(cfg) # "nil"
       THEN err' = Validate(cfg) /\ pc' = "returned"
       ELSE err' = err /\ pc' = "stat"
    /\ UNCHANGED <<envVars, exitStatus, session, walkStack, fileVars, symVars, ioVars>>

\* Run: os.Stat(<WorkspaceDir>/go.mod)
RunStatGoMod ==
    /\ pc = "stat"
    /\ IF ~goMod
       THEN err' = "gomod" /\ pc' = "returned"
       ELSE err' = err /\ pc' = "newRunner"
    /\ UNCHANGED <<envVars, exitStatus, session, walkStack, fileVars, symVars, ioVars>>

\* newRunner: glob.Compile fails
NewRunnerGlobErr ==
    /\ pc = "newRunner"
    /\ ~GlobCompiles(cfg.FilenamePattern)
    /\ err' = "glob"
    /\ pc' = "returned"
    /\ UNCHANGED <<envVars, exitStatus, session, walkStack, fileVars, symVars, ioVars>>

\* newRunner: newClient fails, no session
NewRunnerClientErr ==
    /\ pc = "newRunner"
    /\ GlobCompiles(cfg.FilenamePattern)
    /\ err' = "client"
    /\ pc' = "returned"
    /\ UNCHANGED <<envVars, exitStatus, session, walkStack, fileVars, symVars, ioVars>>

\* newRunner succeeds; Run defers Stop and calls Walk, which starts at the root
NewRunnerOK ==
    /\ pc = "newRunner"
    /\ GlobCompiles(cfg.FilenamePattern)
    /\ session' = "open"
    /\ log' = Append(log, Ev("start", 0, 0, 0, "ok"))
    /\ walkStack' = <<[id |-> RootId, path |-> cfg.WorkspaceDir]>>
    /\ pc' = "walk"
    /\ UNCHANGED <<envVars, err, exitStatus, fileVars, symVars, out, logged>>

\* the Walk callback: info == nil
WalkNilInfo ==
    /\ pc = "walk"
    /\ walkStack # <<>>
    /\ ~Entries[Head(walkStack).id].lstatOK
    /\ walkStack' = Tail(walkStack)
    /\ UNCHANGED <<envVars, pc, err, exitStatus, session, fileVars, symVars, ioVars>>

IsHiddenName(n) == HasPrefix(n, <<".">>)

\* the Walk callback: a directory whose name starts with "." gives SkipDir
WalkSkipDir ==
    /\ pc = "walk"
    /\ walkStack # <<>>
    /\ LET e == Head(walkStack).id
       IN  /\ Entries[e].lstatOK
           /\ Entries[e].isDir
           /\ IsHiddenName(EntryName(e, cfg.WorkspaceDir))
    /\ walkStack' = Tail(walkStack)
    /\ UNCHANGED <<envVars, pc, err, exitStatus, session, fileVars, symVars, ioVars>>

\* the Walk callback returns nil for a directory: Walk descends into it
WalkEnterDir ==
    /\ pc = "walk"
    /\ walkStack # <<>>
    /\ LET top  == Head(walkStack)
           e    == top.id
           kids == EntryChildren(e, goMod)
       IN  /\ Entries[e].lstatOK
           /\ Entries[e].isDir
           /\ ~IsHiddenName(EntryName(e, cfg.WorkspaceDir))
           /\ walkStack' = [i \in 1..Len(kids) |->
                               [id |-> kids[i], path |-> Join(top.path, Entries[kids[i]].name)]]
                           \o Tail(walkStack)
    /\ UNCHANGED <<envVars, pc, err, exitStatus, session, fileVars, symVars, ioVars>>

\* the Walk callback: a file whose path does not end in .go
WalkNotGo ==
    /\ pc = "walk"
    /\ walkStack # <<>>
    /\ LET top == Head(walkStack)
       IN  /\ Entries[top.id].lstatOK
           /\ ~Entries[top.id].isDir
           /\ ~HasSuffix(top.path, GoSuffix)
    /\ walkStack' = Tail(walkStack)
    /\ UNCHANGED <<envVars, pc, err, exitStatus, session, fileVars, symVars, ioVars>>

\* the Walk callback: a .go file the glob does not match
WalkNoMatch ==
    /\ pc = "walk"
    /\ walkStack # <<>>
    /\ LET top == Head(walkStack)
       IN  /\ Entries[top.id].lstatOK
           /\ ~Entries[top.id].isDir
           /\ HasSuffix(top.path, GoSuffix)
           /\ ~GlobMatch(cfg.FilenamePattern, WalkBase(top.path, cfg.WorkspaceDir))
    /\ walkStack' = Tail(walkStack)
    /\ UNCHANGED <<envVars, pc, err, exitStatus, session, fileVars, symVars, ioVars>>

\* the Walk callback: a matching .go file goes to handleFile
WalkHandleFile ==
    /\ pc = "walk"
    /\ walkStack # <<>>
    /\ LET top == Head(walkStack)
       IN  /\ Entries[top.id].lstatOK
           /\ ~Entries[top.id].isDir
           /\ HasSuffix(top.path, GoSuffix)
           /\ GlobMatch(cfg.FilenamePattern, WalkBase(top.path, cfg.WorkspaceDir))
           /\ filename' = WalkBase(top.path, cfg.WorkspaceDir)
           /\ curEntry' = top.id
    /\ pc' = "hf_symbols"
    /\ UNCHANGED <<envVars, err, exitStatus, session, walkStack, tree, rootIdx,
                   content, symVars, ioVars>>

\* Walk has visited everything: err = r.Walk() is nil
WalkDone ==
    /\ pc = "walk"
    /\ walkStack = <<>>
    /\ err' = "nil"
    /\ pc' = "stop"
    /\ UNCHANGED <<envVars, exitStatus, session, walkStack, fileVars, symVars, ioVars>>

\* handleFile has returned to the Walk callback, which returns its result;
\* a non-nil result ends Walk, which returns it to Run
WalkFileReturned ==
    /\ pc = "hf_return"
    /\ IF WalkFileReturn(ret) # "nil"
       THEN /\ err' = WalkFileReturn(ret)
            /\ walkStack' = <<>>
            /\ pc' = "stop"
       ELSE /\ err' = err
            /\ walkStack' = Tail(walkStack)
            /\ pc' = "walk"
    /\ ret' = "nil"
    /\ UNCHANGED <<envVars, exitStatus, session, fileVars, stack, refs, unused,
                   testOnly, rmErr, ioVars>>

\* the deferred r.Stop(): client.Close()
RunStop ==
    /\ pc = "stop"
    /\ IF StopRuns(err)
       THEN /\ session' = "closed"
            /\ log' = Append(log, Ev("close", 0, 0, 0, "ok"))
       ELSE UNCHANGED <<session, log>>
    /\ pc' = "returned"
    /\ UNCHANGED <<envVars, err, exitStatus, walkStack, fileVars, symVars, out, logged>>

\* main: log.Fatal(err) exits with status 1, otherwise main returns
MainExit ==
    /\ pc = "returned"
    /\ exitStatus' = IF err # "nil" THEN 1 ELSE 0
    /\ pc' = "exited"
    /\ UNCHANGED <<envVars, err, session, walkStack, fileVars, symVars, ioVars>>

----------------------------------------------------------------------------
(* handleFile, handleSymbol *)

\* where control goes when a handleSymbol call returns: to the loop of the
\* calling handleSymbol, or to handleFile's loop over the roots
ReturnTo(stk) == IF stk = <<>> THEN "hf_loop" ELSE "hs_loop"

Pop(stk) == SubSeq(stk, 1, Len(stk) - 1)

Top(stk) == stk[Len(stk)]

\* handleFile: DocumentSymbol fails
DocumentSymbolErr ==
    /\ pc = "hf_symbols"
    /\ log' = Append(log, Ev("symbols", curEntry, 0, 0, "err"))
    /\ ret' = "symbols"
    /\ pc' = "hf_return"
    /\ UNCHANGED <<envVars, err, exitStatus, session, walkStack, fileVars, stack,
                   refs, unused, testOnly, rmErr, out, logged>>

\* handleFile: DocumentSymbol returns the symbol tree of the file
DocumentSymbolOK ==
    /\ pc = "hf_symbols"
    /\ \E t \in TreeIds :
          /\ tree' = t
          /\ content' = InitialContent(t)
          /\ log' = Append(log, Ev("symbols", curEntry, t, 0, "ok"))
    /\ rootIdx' = 1
    /\ ret' = "nil"
    /\ pc' = "hf_loop"
    /\ UNCHANGED <<envVars, err, exitStatus, session, walkStack, curEntry, filename,
                   stack, refs, unused, testOnly, rmErr, out, logged>>

\* handleFile's loop: the last handleSymbol returned an error
HandleFileErr ==
    /\ pc = "hf_loop"
    /\ ret # "nil"
    /\ pc' = "hf_return"
    /\ UNCHANGED <<envVars, err, exitStatus, session, walkStack, fileVars, symVars, ioVars>>

\* handleFile's loop: handleSymbol(s) for the next root
HandleFileNext ==
    /\ pc = "hf_loop"
    /\ ret = "nil"
    /\ rootIdx <= Len(Trees[tree].roots)
    /\ stack' = <<[s |-> Trees[tree].roots[rootIdx], i |-> 1]>>
    /\ rootIdx' = rootIdx + 1
    /\ pc' = "hs_enter"
    /\ UNCHANGED <<envVars, err, exitStatus, session, walkStack, curEntry, filename,
                   tree, content, ret, refs, unused, testOnly, rmErr, ioVars>>

\* handleFile's loop is over: return nil
HandleFileDone ==
    /\ pc = "hf_loop"
    /\ ret = "nil"
    /\ rootIdx > Len(Trees[tree].roots)
    /\ pc' = "hf_return"
    /\ UNCHANGED <<envVars, err, exitStatus, session, walkStack, fileVars, symVars, ioVars>>

\* handleSymbol: one of the skip rules returns nil before the query
HandleSymbolSkip ==
    /\ pc = "hs_enter"
    /\ LET s == Top(stack).s
       IN  /\ SkipRule(filename, Sym(tree, s)) # "none"
           /\ log' = Append(log, Ev("skip", curEntry, tree, s, SkipRule(filename, Sym(tree, s))))
    /\ stack' = Pop(stack)
    /\ ret' = "nil"
    /\ pc' = ReturnTo(stack')
    /\ UNCHANGED <<envVars, err, exitStatus, session, walkStack, fileVars, refs,
                   unused, testOnly, rmErr, out, logged>>

\* handleSymbol: DocumentReferences fails
DocumentReferencesErr ==
    /\ pc = "hs_enter"
    /\ LET s == Top(stack).s
       IN  /\ SkipRule(filename, Sym(tree, s)) = "none"
           /\ log' = Append(log, Ev("query", curEntry, tree, s, "err"))
    /\ stack' = Pop(stack)
    /\ ret' = "refs"
    /\ pc' = ReturnTo(stack')
    /\ UNCHANGED <<envVars, err, exitStatus, session, walkStack, fileVars, refs,
                   unused, testOnly, rmErr, out, logged>>

\* handleSymbol: DocumentReferences answers and the symbol is classified
DocumentReferencesOK ==
    /\ pc = "hs_enter"
    /\ LET s == Top(stack).s
       IN  /\ SkipRule(filename, Sym(tree, s)) = "none"
           /\ log' = Append(log, Ev("query", curEntry, tree, s, "ok"))
    /\ \E r \in RefReplies :
          /\ refs' = r
          /\ unused' = Classify(r).unused
          /\ testOnly' = Classify(r).testOnly
    /\ rmErr' = "nil"
    /\ pc' = IF ShouldRemove(unused', testOnly') THEN "hs_remove"
             ELSE IF ShouldPrint(unused', testOnly') THEN "hs_print"
             ELSE "hs_children"
    /\ UNCHANGED <<envVars, err, exitStatus, session, walkStack, fileVars, stack,
                   ret, out, logged>>

\* what follows r.remove in handleSymbol, given the error it returned
AfterRemove(e) ==
    /\ IF RemoveErrReturn(e) # "nil"
       THEN /\ stack' = Pop(stack)
            /\ ret' = RemoveErrReturn(e)
            /\ pc' = ReturnTo(stack')
       ELSE /\ UNCHANGED <<stack, ret>>
            /\ pc' = IF ShouldPrint(unused, testOnly) THEN "hs_print" ELSE "hs_children"

\* r.remove: rf deletes the declaration
RemoveOK ==
    /\ pc = "hs_remove"
    /\ LET s == Top(stack).s
       IN  /\ content' = ContentAfterRemove(content, tree, s)
           /\ log' = Append(log, Ev("remove", curEntry, tree, s, "ok"))
    /\ rmErr' = "nil"
    /\ AfterRemove("nil")
    /\ UNCHANGED <<envVars, err, exitStatus, session, walkStack, curEntry, filename,
                   tree, rootIdx, refs, unused, testOnly, out, logged>>

\* r.remove: rf exits non-zero or cannot be started; the error is logged
RemoveFail ==
    /\ pc = "hs_remove"
    /\ \E e \in {"exit", "start"} :
          /\ rmErr' = e
          /\ AfterRemove(e)
    /\ LET s == Top(stack).s
       IN  /\ logged' = Append(logged, RemoveScript(Sym(tree, s)))
           /\ log' = Append(log, Ev("remove", curEntry, tree, s, "fail"))
    /\ UNCHANGED <<envVars, err, exitStatus, session, walkStack, fileVars, refs,
                   unused, testOnly, out>>

\* e.Print(r.cfg.Out)
PrintUsage ==
    /\ pc = "hs_print"
    /\ LET s    == Top(stack).s
           line == UsageLine(filename, s, Sym(tree, s), testOnly)
       IN  /\ out' = Append(out, line)
           /\ log' = Append(log, Ev("print", curEntry, tree, s, line.Code))
    /\ pc' = "hs_children"
    /\ UNCHANGED <<envVars, err, exitStatus, session, walkStack, fileVars, symVars, logged>>

\* handleSymbol reaches the loop over s.Children; its locals are dead
BeginChildren ==
    /\ pc = "hs_children"
    /\ LET f == Top(stack)
           n == Len(Sym(tree, f.s).Children)
       IN  stack' = [stack EXCEPT ![Len(stack)].i =
                        IF VisitChildren(unused, testOnly) THEN 1 ELSE n + 1]
    /\ refs' = <<>>
    /\ unused' = FALSE
    /\ testOnly' = FALSE
    /\ rmErr' = "nil"
    /\ ret' = "nil"
    /\ pc' = "hs_loop"
    /\ UNCHANGED <<envVars, err, exitStatus, session, walkStack, fileVars, ioVars>>

\* the loop over s.Children: handleSymbol(child) returned an error
ChildErr ==
    /\ pc = "hs_loop"
    /\ ChildErrReturn(ret) # "nil"
    /\ stack' = Pop(stack)
    /\ ret' = ChildErrReturn(ret)
    /\ pc' = ReturnTo(stack')
    /\ UNCHANGED <<envVars, err, exitStatus, session, walkStack, fileVars, refs,
                   unused, testOnly, rmErr, ioVars>>

\* the loop over s.Children: handleSymbol(child) for the next child
ChildNext ==
    /\ pc = "hs_loop"
    /\ ChildErrReturn(ret) = "nil"
    /\ LET f == Top(stack)
           c == Sym(tree, f.s).Children
       IN  /\ f.i <= Len(c)
           /\ stack' = Append([stack EXCEPT ![Len(stack)].i = f.i + 1],
                              [s |-> c[f.i], i |-> 1])
    /\ ret' = "nil"
    /\ pc' = "hs_enter"
    /\ UNCHANGED <<envVars, err, exitStatus, session, walkStack, fileVars, refs,
                   unused, testOnly, rmErr, ioVars>>

\* the loop over s.Children is over: return nil
ChildDone ==
    /\ pc = "hs_loop"
    /\ ChildErrReturn(ret) = "nil"
    /\ LET f == Top(stack)
       IN  f.i > Len(Sym(tree, f.s).Children)
    /\ stack' = Pop(stack)
    /\ ret' = "nil"
    /\ pc' = ReturnTo(stack')
    /\ UNCHANGED <<envVars, err, exitStatus, session, walkStack, fileVars, refs,
                   unused, testOnly, rmErr, ioVars>>

Next ==
    \/ RunValidate
    \/ RunStatGoMod
    \/ NewRunnerGlobErr
    \/ NewRunnerClientErr
    \/ NewRunnerOK
    \/ WalkNilInfo
    \/ WalkSkipDir
    \/ WalkEnterDir
    \/ WalkNotGo
    \/ WalkNoMatch
    \/ WalkHandleFile
    \/ WalkDone
    \/ WalkFileReturned
    \/ DocumentSymbolErr
    \/ DocumentSymbolOK
    \/ HandleFileErr
    \/ HandleFileNext
    \/ HandleFileDone
    \/ HandleSymbolSkip
    \/ DocumentReferencesErr
    \/ DocumentReferencesOK
    \/ RemoveOK
    \/ RemoveFail
    \/ PrintUsage
    \/ BeginChildren
    \/ ChildErr
    \/ ChildNext
    \/ ChildDone
    \/ RunStop
    \/ MainExit

Spec == Init /\ [][Next]_vars

----------------------------------------------------------------------------
(* Vocabulary of the properties, stated on the history and on the inputs,  *)
(* independently of the operators the actions use.                         *)

LogIdx == DOMAIN log

Count(op) == Cardinality({i \in LogIdx : log[i].op = op})

SameSym(a, b) == a.file = b.file /\ a.sym = b.sym

Finished == pc \in {"returned", "exited"}

\* some backend query failed during the run
SomeQueryFailed == \E i \in LogIdx : log[i].res = "err"

InTestFile(rs) == \A i \in DOMAIN rs : HasSuffix(rs[i], TestSuffix)

\* the lines written for symbol s of the file being processed, by code
LinesFor(s, code) ==
    {i \in DOMAIN out : /\ out[i].Filename = filename
                        /\ out[i].Line = LocLine(s) + 1
                        /\ out[i].Name = Sym(tree, s).Name
                        /\ out[i].Code = code}

\* the base name of a symbol: after the first "." for a method, else the name
ClaimBaseName(sym) ==
    LET n == sym.Name
    IN  IF sym.Kind = "Method" /\ \E i \in DOMAIN n : n[i] = "."
        THEN LET d == CHOOSE i \in DOMAIN n :
                         n[i] = "." /\ \A j \in 1..(i - 1) : n[j] # "."
             IN  SubSeq(n, d + 1, Len(n))
        ELSE n

\* the three exclusion rules: (a) field, (b) test entry point in a test
\* file, (c) base name not starting with A..Z
ExcludedByRule(fileName, sym) ==
    \/ sym.Kind = "Field"
    \/ /\ sym.Kind = "Function"
       /\ \E pfx \in {PfxTest, PfxBenchmark, PfxExample} : HasPrefix(sym.Name, pfx)
       /\ HasSuffix(fileName, TestSuffix)
    \/ LET b == ClaimBaseName(sym) IN b = <<>> \/ b[1] \notin UpperAZ

\* depth-first pre-order of a forest in which the children of an excluded
\* node are not entered
RECURSIVE PrunedPreorder(_, _, _)
PrunedPreorder(t, fileName, ss) ==
    IF ss = <<>> THEN <<>>
    ELSE LET s == Head(ss)
         IN  <<s>>
             \o (IF ExcludedByRule(fileName, Sym(t, s)) THEN <<>>
                 ELSE PrunedPreorder(t, fileName, Sym(t, s).Children))
             \o PrunedPreorder(t, fileName, Tail(ss))

\* the symbols of file e on which handleSymbol was entered, in order
VisitSeq(e) ==
    LET evs == SelectSeq(log, LAMBDA x : x.op \in {"skip", "query"} /\ x.file = e)
    IN  [i \in DOMAIN evs |-> evs[i].sym]

IsPrefixOf(a, b) == Len(a) <= Len(b) /\ SubSeq(b, 1, Len(a)) = a

Handled(e) == \E i \in LogIdx : log[i].op = "symbols" /\ log[i].file = e

Queried(e, s) == \E i \in LogIdx : log[i].op = "query" /\ log[i].file = e /\ log[i].sym = s

\* the files of the workspace
FileEntries ==
    {e \in EntryIds : /\ ~Entries[e].isDir
                      /\ Entries[e].lstatOK
                      /\ (Entries[e].name # GoModName \/ goMod)}

\* the directories between the root (exclusive) and an entry
RECURSIVE DirsAbove(_)
DirsAbove(e) ==
    IF ParentOf(e) \in {0, RootId} THEN {}
    ELSE {ParentOf(e)} \cup DirsAbove(ParentOf(e))

\* the root-relative forward-slash path of an entry
RECURSIVE RelPath(_)
RelPath(e) ==
    IF ParentOf(e) \in {0, RootId} THEN Entries[e].name
    ELSE RelPath(ParentOf(e)) \o <<"/">> \o Entries[e].name

\* the files Walk should hand to handleFile
ShouldHandle(e) ==
    /\ HasSuffix(Entries[e].name, GoSuffix)
    /\ GlobMatch(cfg.FilenamePattern, RelPath(e))
    /\ \A d \in DirsAbove(e) : ~HasPrefix(Entries[d].name, <<".">>)

----------------------------------------------------------------------------
(* C1 *)

\* C1: a symbol that survives the skip rules gets exactly one outcome, fixed
\* by its reference set: no reference - Unused, one EU1002 line; references
\* all in _test.go files - TestOnly, one EU1001 line; a reference outside a
\* _test.go file - Used, no line.
C1_OutcomeByReferences ==
    pc = "hs_children" =>
        LET s       == Top(stack).s
            n1001   == Cardinality(LinesFor(s, "EU1001"))
            n1002   == Cardinality(LinesFor(s, "EU1002"))
            isUsed  == ~unused /\ ~testOnly
        IN  /\ Cardinality({x \in {"U", "T", "N"} :
                               \/ x = "U" /\ unused
                               \/ x = "T" /\ testOnly
                               \/ x = "N" /\ isUsed}) = 1
            /\ refs = <<>> => unused /\ n1002 = 1 /\ n1001 = 0
            /\ (refs # <<>> /\ InTestFile(refs)) => testOnly /\ n1001 = 1 /\ n1002 = 0
            /\ ~InTestFile(refs) => isUsed /\ n1001 = 0 /\ n1002 = 0

\* a run that produced an EU1001 line, an EU1002 line and a queried symbol
\* without a line
C1_Witness ==
    /\ pc = "exited"
    /\ \E i \in DOMAIN out : out[i].Code = "EU1001"
    /\ \E i \in DOMAIN out : out[i].Code = "EU1002"
    /\ \E i \in LogIdx :
          /\ log[i].op = "query" /\ log[i].res = "ok"
          /\ \A j \in LogIdx : log[j].op \in {"print", "remove"} => ~SameSym(log[i], log[j])

----------------------------------------------------------------------------
(* C2 *)

\* C2: rf is run for a symbol only when its reference query returned no
\* reference, at most once per symbol, right after the query that classified
\* it and right before its EU1002 line: nothing (no child, no sibling) comes
\* in between.
C2_RemoveOnlyUnusedEagerly ==
    /\ \A i \in LogIdx : log[i].op = "remove" =>
          /\ i > 1
          /\ log[i - 1].op = "query" /\ log[i - 1].res = "ok" /\ SameSym(log[i - 1], log[i])
          /\ i < Len(log) =>
                /\ log[i + 1].op = "print" /\ log[i + 1].res = "EU1002"
                /\ SameSym(log[i + 1], log[i])
          /\ \A j \in LogIdx : (log[j].op = "remove" /\ SameSym(log[j], log[i])) => j = i
    /\ (log # <<>> /\ log[Len(log)].op = "remove") =>
          /\ refs = <<>>
          /\ Top(stack).s = log[Len(log)].sym

\* an unused parent was removed and one of its children was queried after
C2_Witness ==
    /\ pc = "exited"
    /\ \E i, j \in LogIdx :
          /\ i < j
          /\ log[i].op = "remove" /\ log[i].tree = 2 /\ log[i].sym = 1
          /\ log[j].op = "query" /\ log[j].file = log[i].file /\ log[j].sym = 2

----------------------------------------------------------------------------
(* C3 *)

\* C3 as stated: a DocumentSymbol failure is contained to its file - every
\* file that should be handled is still handed to handleFile and the run
\* ends without an error, exit status 0.
C3_SymbolErrorContained ==
    (pc = "exited" /\ \E i \in LogIdx : log[i].op = "symbols" /\ log[i].res = "err") =>
        /\ err = "nil"
        /\ exitStatus = 0
        /\ \A e \in FileEntries : ShouldHandle(e) => Handled(e)

\* C3 amended: a DocumentSymbol failure ends the walk - no backend call,
\* removal or output follows it, only the closing of the session; Run
\* returns the error and the process exits with status 1.
C3_SymbolErrorEndsWalk ==
    \A i \in LogIdx : (log[i].op = "symbols" /\ log[i].res = "err") =>
        /\ \A j \in LogIdx : j > i => log[j].op = "close"
        /\ Finished => err = "symbols" /\ session = "closed"
        /\ pc = "exited" => exitStatus = 1
        /\ pc \in {"hf_return", "stop", "returned", "exited"}

\* DocumentSymbol failed for a.go while lib/b_test.go matched the glob too
C3_Witness ==
    /\ pc = "exited"
    /\ exitStatus = 1
    /\ cfg.WorkspaceDir = DirAbs
    /\ cfg.FilenamePattern = PatAnyGo
    /\ \E i \in LogIdx : log[i].op = "symbols" /\ log[i].res = "err" /\ log[i].file = 4
    /\ ~Handled(7)

----------------------------------------------------------------------------
(* C4 *)

\* C4: a failing rf is not fatal - the EU1002 line of the symbol is the next
\* thing that happens, handleSymbol does not return because of it, and a run
\* in which no backend query failed still visits every symbol of every
\* handled file in full pre-order and exits with status 0.
C4_RemoveFailureNotFatal ==
    /\ \A i \in LogIdx : (log[i].op = "remove" /\ log[i].res = "fail") =>
          /\ i < Len(log) =>
                /\ log[i + 1].op = "print" /\ log[i + 1].res = "EU1002"
                /\ SameSym(log[i + 1], log[i])
          /\ i = Len(log) =>
                /\ pc = "hs_print"
                /\ ret = "nil"
                /\ Top(stack).s = log[i].sym
                /\ logged # <<>>
    /\ (Finished /\ session = "closed" /\ ~SomeQueryFailed) =>
          /\ err = "nil"
          /\ pc = "exited" => exitStatus = 0
          /\ \A i \in LogIdx : log[i].op = "symbols" =>
                VisitSeq(log[i].file) =
                    PrunedPreorder(log[i].tree, Entries[log[i].file].name,
                                   Trees[log[i].tree].roots)

\* rf failed for a type in a.go; its child was queried, the next file was
\* handled and the run ended with status 0
C4_Witness ==
    /\ pc = "exited"
    /\ exitStatus = 0
    /\ Handled(7)
    /\ \E i, j \in LogIdx :
          /\ i < j
          /\ log[i].op = "remove" /\ log[i].res = "fail"
          /\ log[i].file = 4 /\ log[i].tree = 2 /\ log[i].sym = 1
          /\ log[j].op = "query" /\ log[j].file = 4 /\ log[j].sym = 2

----------------------------------------------------------------------------
(* C5 *)

\* C5: after a failed reference query no further symbol of that file is
\* entered, queried, removed or reported, while what was done before stays:
\* the lines written are still the output and the declarations rf removed
\* are still gone from the file.
C5_ReferenceErrorAbortsFile ==
    /\ \A i \in LogIdx : (log[i].op = "query" /\ log[i].res = "err") =>
          /\ \A j \in LogIdx :
                j > i => ~(log[j].file = log[i].file
                           /\ log[j].op \in {"skip", "query", "remove", "print"})
          /\ LET prints == SelectSeq(log, LAMBDA x : x.op = "print")
             IN  /\ Len(out) = Len(prints)
                 /\ \A k \in DOMAIN out :
                       /\ out[k].Code = prints[k].res
                       /\ out[k].Line = LocLine(prints[k].sym) + 1
                       /\ out[k].Name = Sym(prints[k].tree, prints[k].sym).Name
          /\ \A j \in LogIdx :
                (log[j].op = "remove" /\ log[j].res = "ok" /\ log[j].file = curEntry) =>
                    \A k \in DOMAIN content : content[k] # log[j].sym

\* the query of the second symbol of a file failed after the first was
\* removed and reported; the remaining symbols of the file were not entered
C5_Witness ==
    /\ pc = "exited"
    /\ err = "refs"
    /\ out # <<>>
    /\ \E i, j \in LogIdx :
          /\ i < j
          /\ log[i].op = "remove" /\ log[i].res = "ok" /\ log[i].tree = 2 /\ log[i].sym = 1
          /\ log[j].op = "query" /\ log[j].res = "err"
          /\ log[j].file = log[i].file /\ log[j].sym = 2
          /\ Len(VisitSeq(log[j].file)) = 2

----------------------------------------------------------------------------
(* C6 *)

\* C6: no reference query, no removal and no diagnostic line is ever issued
\* for a symbol excluded by the rules (field; Test/Benchmark/Example function
\* in a _test.go file; base name not starting with A..Z), and entering such
\* a symbol leaves only a skip in the history.
C6_SkipRulesBeforeQuery ==
    /\ \A i \in LogIdx :
          log[i].op \in {"skip", "query", "remove", "print"} =>
             (ExcludedByRule(Entries[log[i].file].name, Sym(log[i].tree, log[i].sym))
                 <=> log[i].op = "skip")
    /\ pc \in {"hs_remove", "hs_print", "hs_children"} =>
          ~ExcludedByRule(Entries[curEntry].name, Sym(tree, Top(stack).s))

\* one run skipped a field, a test function in a test file and an
\* unexported name
C6_Witness ==
    /\ pc = "exited"
    /\ \A r \in {"field", "test", "unexported"} :
          \E i \in LogIdx : log[i].op = "skip" /\ log[i].res = r

----------------------------------------------------------------------------
(* C7 *)

\* C7 as stated: when a file has been processed without error, every symbol
\* of its tree that itself passes the skip rules has been classified.
C7_EveryEligibleNodeClassified ==
    (pc = "hf_return" /\ ret = "nil") =>
        \A s \in SymIds(tree) :
            ~ExcludedByRule(Entries[curEntry].name, Sym(tree, s)) => Queried(curEntry, s)

\* C7 amended: the symbols are entered in depth-first pre-order, the children
\* of a classified symbol whatever its outcome, the children of a symbol
\* excluded by a skip rule not at all; when a file has been processed without
\* error exactly the symbols of that pruned pre-order were entered and those
\* of them that pass the skip rules were classified.
C7_PrunedPreorder ==
    \A i \in LogIdx : (log[i].op = "symbols" /\ log[i].res = "ok") =>
        LET e     == log[i].file
            order == PrunedPreorder(log[i].tree, Entries[e].name, Trees[log[i].tree].roots)
        IN  /\ IsPrefixOf(VisitSeq(e), order)
            /\ (e = curEntry /\ pc = "hf_return" /\ ret = "nil") =>
                   /\ VisitSeq(e) = order
                   /\ \A k \in DOMAIN order :
                         ~ExcludedByRule(Entries[e].name, Sym(tree, order[k]))
                             => Queried(e, order[k])

\* a file processed in full: the child of a removed (unused) interface was
\* classified, the exported method of an unexported interface was not entered
C7_Witness ==
    /\ pc = "hf_return"
    /\ ret = "nil"
    /\ tree = 2
    /\ \E i \in LogIdx : log[i].op = "remove" /\ log[i].file = curEntry /\ log[i].sym = 1
    /\ Queried(curEntry, 2)
    /\ \A k \in DOMAIN VisitSeq(curEntry) : VisitSeq(curEntry)[k] # 4

----------------------------------------------------------------------------
(* C8 *)

\* C8: the session is started at most once and only with a valid
\* configuration (non-empty WorkspaceDir and FilenamePattern, an Out, go.mod
\* present, a glob that compiles); once started it is closed exactly once
\* before Run returns, whatever Walk returned; every DocumentSymbol and
\* DocumentReferences call lies between the start and the close.
C8_SessionLifecycle ==
    /\ Count("start") <= 1
    /\ Count("close") <= Count("start")
    /\ (session = "none") <=> (Count("start") = 0)
    /\ Count("start") = 1 =>
          /\ cfg.WorkspaceDir # <<>>
          /\ cfg.FilenamePattern # <<>>
          /\ cfg.Out # "nil"
          /\ goMod
          /\ cfg.FilenamePattern # PatBad
    /\ (Finished /\ Count("start") = 1) => Count("close") = 1 /\ session = "closed"
    /\ \A i \in LogIdx : log[i].op \in {"symbols", "query"} =>
          /\ \E j \in 1..(i - 1) : log[j].op = "start"
          /\ \A j \in 1..(i - 1) : log[j].op # "close"

\* Run returned the error of a reference query with the session closed
C8_Witness ==
    /\ pc = "returned"
    /\ err = "refs"
    /\ session = "closed"
    /\ Count("close") = 1

----------------------------------------------------------------------------
(* C9 *)

\* C9: when Walk returns nil, the files handed to handleFile are exactly the
\* .go files whose root-relative path matches the glob and that lie under no
\* directory, below the root, whose name starts with "." - whatever the name
\* of the root itself.
C9_WalkHandsMatchingFiles ==
    (pc \in {"stop", "returned", "exited"} /\ session # "none" /\ err = "nil") =>
        \A e \in FileEntries : Handled(e) <=> ShouldHandle(e)

----------------------------------------------------------------------------
(* C10 *)

\* C10: the location given to a reference query is a line on which that
\* symbol is declared in the file as it is when the query is made.
C10_LocationIsCurrent ==
    (log # <<>> /\ log[Len(log)].op = "query" /\ log[Len(log)].file = curEntry) =>
        LET s == log[Len(log)].sym
        IN  /\ LocLine(s) + 1 \in DOMAIN content
            /\ content[LocLine(s) + 1] = s

====
